---- MODULE Spec2Model ----
(***************************************************************************)
(* Discord TTS bridge: the synthesis-and-routing pipeline.                 *)
(*                                                                         *)
(* The program is single-threaded JavaScript: code between two awaits runs *)
(* atomically, and every await on an external call (an HTTP request, a    *)
(* spawned process) is a suspension point.  One action of this module is   *)
(* the completion of one external call together with the synchronous code  *)
(* that follows it, up to the next external call.                          *)
(***************************************************************************)
EXTENDS Integers, FiniteSets, Sequences, TLC

\* Number of inbound (text, author) events the model lets arrive.
MaxEvents == 2

Events == 1 .. MaxEvents

\* Number of external calls (HTTP requests, spawned commands) that may fail
\* in one run.
MaxFaults == 2

\* The text of event i as the chat client hands it to the pipeline entry
\* point (already normalized); every event carries a text of its own.
TextOf(i) == <<"message", i>>

\* platform.current() of utils, as far as the code branches on it.
Platforms == {"darwin", "win32", "linux"}

\* Output devices of the host; BlackHole is the virtual sink, Speaker the
\* monitor device, BuiltIn any other device the operator had selected.
BlackHole == "BlackHole"
Speaker == "Speaker"
Devices == {BlackHole, Speaker, "BuiltIn"}

\* null / undefined of the source.
NULL == "null"

\* Index into the promises array of playOnMacOSDevices.
Tasks == {1, 2}

VARIABLES
    platform,       \* process.platform
    options,        \* AppOptions of DiscordTTSBridge, fixed at construction
    isProcessing,   \* DiscordTTSBridge.isProcessing
    cur,            \* the host's current output device (process-wide)
    inv,            \* inv[i]: the handleMessage invocation of event i
    task,           \* task[i][t]: the playOnSpecificMacOSDevice call t of i
    faults,         \* external calls that have failed so far
    call,           \* the call a client made on the AudioPlayer buffer API
    files,          \* temporary audio files that exist in temp_audio
    app,            \* the process: how far startMainApplication and start are
    msg             \* a message event in DiscordTTSClient.handleMessage

vars == <<platform, options, isProcessing, cur, inv, task, faults, call, files,
          app, msg>>

----------------------------------------------------------------------------
(* The environment *)

\* The results an external call may have now: it succeeds, or it fails while
\* the run's failures are not used up.
Outcomes == IF faults < MaxFaults THEN BOOLEAN ELSE {TRUE}

\* An external call ended with result ok.
Ended(ok) == faults' = IF ok THEN faults ELSE faults + 1

----------------------------------------------------------------------------
(* Records *)

\* A handleMessage invocation that has not been made yet.
NewInv ==
    [ pc |-> "new", text |-> <<>>, arrivedBusy |-> FALSE,
      nPrimary |-> 0, nSystem |-> 0, nSwitch |-> 0, nPlay |-> 0,
      primary |-> "none", system |-> "none", sysArgs |-> NULL,
      audioFilePath |-> NULL, devAtStart |-> NULL, switched |-> "none",
      fb |-> "none", deliver |-> "none", outcome |-> "none",
      client |-> "none" ]

\* A playOnSpecificMacOSDevice call that has not been made yet.
\* start is the device that was current as the call was made.
NewTask == [ pc |-> "none", start |-> NULL, orig |-> NULL, res |-> "none" ]

\* The deviceName argument of call t: promises[0] plays on the virtual sink,
\* promises[1] on the speaker device.
TaskDevice(t) == IF t = 1 THEN BlackHole ELSE options.speakerDevice

\* A mutation of FallbackVoice: the voice parameters of the request.
FallbackVoiceOfRequest ==
    [ voice |-> options.voice, rate |-> options.rate, volume |-> options.volume ]

\* Voice parameters of the fallback call in synthesizeWithVoicevox.
FallbackVoice == [ voice |-> IF platform = "win32" THEN "Haruka" ELSE "Kyoko",
                   rate |-> 230, volume |-> 50 ]

\* Voice parameters handleMessage passes: options.voice / rate / volume.
ConfiguredVoice ==
    [ voice |-> options.voice, rate |-> options.rate, volume |-> options.volume ]

----------------------------------------------------------------------------
(* handleMessage: catch and finally *)

\* A mutation of Finally: the flag is reset with no cleanupFile call.
FinallyNoCleanup(r) ==
    [ rec |-> [r EXCEPT !.pc = "done", !.devAtStart = NULL], busy |-> FALSE ]

\* finally of handleMessage: with audioFilePath set the invocation awaits
\* cleanupFile, otherwise it resets the flag at once.  Returns the record and
\* the value isProcessing takes.
Finally(r) ==
    IF r.audioFilePath # NULL
    THEN [ rec |-> [r EXCEPT !.pc = "cleanupFile", !.devAtStart = NULL],
           busy |-> TRUE ]
    ELSE [ rec |-> [r EXCEPT !.pc = "done", !.devAtStart = NULL],
           busy |-> FALSE ]

\* catch of handleMessage: the error is logged, then finally runs.
Catch(r) == Finally([r EXCEPT !.outcome = "error"])

\* End of the try block: the completion is logged, then finally runs.
Completed(r) == Finally([r EXCEPT !.outcome = "ok"])

----------------------------------------------------------------------------
(* TTSEngine *)

\* synthesizeWithSystemTTS: dispatches on the platform; an unsupported
\* platform throws before any process is spawned.
SystemTTSSupported == platform \in {"win32", "darwin"}

\* The call synthesizeWithSystemTTS(text, args) made by invocation r: the
\* engine process is spawned (pc "systemTTS") or the call throws at once.
CallSystemTTS(r, args) ==
    LET c == [r EXCEPT !.nSystem = @ + 1,
                       !.sysArgs = [text |-> r.text, voice |-> args]]
    IN  IF SystemTTSSupported
        THEN [ rec |-> [c EXCEPT !.pc = "systemTTS"], busy |-> TRUE ]
        ELSE Catch([c EXCEPT !.system = "failed"])

\* A mutation of VoicevoxFailed: the error is thrown on, with no fallback.
VoicevoxFailedRethrow(r) == Catch([r EXCEPT !.primary = "failed"])

\* catch of synthesizeWithVoicevox: the error is logged and the same text is
\* synthesized with the system engine and the fixed fallback voice.
VoicevoxFailed(r) == CallSystemTTS([r EXCEPT !.primary = "failed"], FallbackVoice)

\* A mutation of Synthesize: the voicevox engine whatever was configured.
SynthesizeWithVoicevox(r) ==
    [ rec |-> [r EXCEPT !.pc = "audio_query", !.nPrimary = @ + 1],
      busy |-> TRUE ]

\* TTSEngine.synthesize: the engine chosen at construction.
Synthesize(r) ==
    IF options.engine = "voicevox"
    THEN [ rec |-> [r EXCEPT !.pc = "audio_query", !.nPrimary = @ + 1],
           busy |-> TRUE ]
    ELSE CallSystemTTS(r, ConfiguredVoice)

----------------------------------------------------------------------------
(* DiscordTTSBridge.handleMessage *)

\* A mutation of Busy: the guard is never taken.
BusyNever == FALSE

\* The guard at the head of handleMessage.
Busy == isProcessing

\* A mutation of Dropped: the warning is logged but the return is missing.
DroppedThenProcessed(r) == Synthesize(r).rec

\* The guarded branch of handleMessage: a warning and a return.
Dropped(r) == [r EXCEPT !.pc = "dropped"]

\* A mutation of BusyAfterDropped: the guarded return clears the flag.
BusyAfterDroppedCleared == FALSE

\* isProcessing after the guarded return, which does not assign it.
BusyAfterDropped == isProcessing

\* handleMessage(text, author) of the bridge, up to its first await, for
\* event i.
OnMessage(i, text) ==
    LET r == [inv[i] EXCEPT !.text = text, !.arrivedBusy = isProcessing]
    IN  IF Busy
        THEN /\ inv' = [inv EXCEPT ![i] = Dropped(r)]
             /\ isProcessing' = BusyAfterDropped
        ELSE LET n == Synthesize(r)
             IN  /\ inv' = [inv EXCEPT ![i] = n.rec]
                 /\ isProcessing' = n.busy

\* An event arrives: the chat client calls handleMessage(text, author).
\* Events are numbered in arrival order.
HandleMessage(i, text) ==
    /\ app.pc = "ready"
    /\ inv[i].pc = "new"
    /\ \A j \in Events : j < i => inv[j].pc # "new"
    /\ OnMessage(i, text)
    /\ UNCHANGED <<call, files, app, msg, platform, options, cur, task, faults>>

\* A mutation of CreateAudioQuery: the status of the response is not
\* looked at.
CreateAudioQueryUnchecked(r, ok) ==
    [ rec |-> [r EXCEPT !.pc = "synthesis"], busy |-> TRUE ]

\* createAudioQuery after its fetch: with an OK response the query is
\* returned and synthesizeAudio posts it to /synthesis; otherwise it throws.
CreateAudioQuery(r, ok) ==
    IF ok
    THEN [ rec |-> [r EXCEPT !.pc = "synthesis"], busy |-> TRUE ]
    ELSE VoicevoxFailed(r)

\* POST /audio_query returns: a failure or a non-OK status throws, which
\* synthesizeWithVoicevox catches.
AudioQueryDone(i, ok) ==
    /\ Ended(ok)
    /\ inv[i].pc = "audio_query"
    /\ LET n == CreateAudioQuery(inv[i], ok)
       IN  /\ inv' = [inv EXCEPT ![i] = n.rec]
           /\ isProcessing' = n.busy
    /\ UNCHANGED <<call, files, app, msg, platform, options, cur, task>>

----------------------------------------------------------------------------
(* AudioPlayer: delivery entry points *)

\* A single playback (playAudio, or playWithAfplay) is started and awaited.
PlaySingle(r) == [r EXCEPT !.pc = "play", !.nPlay = @ + 1, !.deliver = "pending"]

\* A mutation of DualConfigured: only the flag is looked at.
DualConfiguredByFlag == options.enableDualOutput

\* The guard at the head of playWithDualOutput: without the flag or without a
\* speaker device the call is plain playAudio.
DualConfigured == options.enableDualOutput /\ options.speakerDevice # NULL

\* playWithDualOutput(filePath): the try block awaits playOnWindowsDevices,
\* playOnMacOSDevices or playAudio, depending on the platform (pc "dual").
\* d is the current output device as the call is made.
PlayWithDualOutput(r, d) ==
    IF ~DualConfigured
    THEN PlaySingle(r)
    ELSE [r EXCEPT !.pc = "dual", !.nPlay = @ + 1, !.deliver = "pending",
                   !.devAtStart = d]

\* The playback branch of handleMessage.
Deliver(r, d) ==
    IF options.useAfplay THEN PlaySingle(r)
    ELSE IF options.enableDualOutput THEN PlayWithDualOutput(r, d)
    ELSE PlaySingle(r)

\* A mutation of DualFailed: the error is logged and thrown again.
DualFailedRethrow(r) == Catch([r EXCEPT !.deliver = "raised"]).rec

\* catch of playWithDualOutput: the error is logged and the file is played
\* once more with playAudio.
DualFailed(r) == [r EXCEPT !.pc = "fallbackPlay", !.fb = "pending"]

\* playOnMacOSDevices: both playOnSpecificMacOSDevice calls are made, one
\* after the other without an await between them, before Promise.all is
\* awaited; each runs up to its first await, the current-device query.
StartedTasks(d) == [t \in Tasks |-> [NewTask EXCEPT !.pc = "query", !.start = d]]

\* The tasks of invocation i once its record becomes r.
TasksAfter(i, r) ==
    IF r.pc = "dual" /\ inv[i].pc # "dual" /\ platform = "darwin"
    THEN [task EXCEPT ![i] = StartedTasks(r.devAtStart)]
    ELSE task

----------------------------------------------------------------------------
(* handleMessage, after synthesis *)

\* switchToDevice awaits a platform command on Windows and macOS only; on
\* another platform it logs a warning and returns.
SwitchSupported == platform \in {"win32", "darwin"}

\* A mutation of Synthesized: the playback starts without the switch.
SynthesizedNoSwitch(r, tag) == Deliver([r EXCEPT !.audioFilePath = tag], cur)

\* synthesize returned the result of the engine named by tag: audioFilePath
\* is set and switchToBlackHole is called.
Synthesized(r, tag) ==
    LET c == [r EXCEPT !.audioFilePath = tag, !.nSwitch = @ + 1]
    IN  IF SwitchSupported
        THEN [c EXCEPT !.pc = "switchToBlackHole"]
        ELSE Deliver(c, cur)

\* outputPath of VoicevoxEngine.synthesize: a name in temp_audio made of the
\* clock and the text, one per invocation.
OutputPath(i) == <<"voicevox", i>>

\* POST /synthesis returns: OK gives the audio, which VoicevoxEngine.synthesize
\* writes to outputPath; anything else throws and is caught by
\* synthesizeWithVoicevox.
SynthesisDone(i, ok) ==
    /\ Ended(ok)
    /\ inv[i].pc = "synthesis"
    /\ LET n == IF ok
                THEN [ rec |-> Synthesized([inv[i] EXCEPT !.primary = "ok"], "voicevox"),
                       busy |-> TRUE ]
                ELSE VoicevoxFailed(inv[i])
       IN  /\ inv' = [inv EXCEPT ![i] = n.rec]
           /\ isProcessing' = n.busy
           /\ task' = TasksAfter(i, n.rec)
    /\ files' = IF ok THEN files \cup {OutputPath(i)} ELSE files
    /\ UNCHANGED <<call, app, msg, platform, options, cur>>

\* A mutation of SystemTTSFailed: the failed system engine is tried once more.
SystemTTSFailedRetry(r) ==
    IF r.nSystem < 2
    THEN CallSystemTTS(r, r.sysArgs.voice)
    ELSE Catch([r EXCEPT !.system = "failed"])

\* catch of synthesizeWithWindowsTTS / synthesizeWithMacOSTTS: the error is
\* logged and thrown again; nothing between there and the catch of
\* handleMessage handles it.
SystemTTSFailed(r) == Catch([r EXCEPT !.system = "failed"])

\* The system speech process exits: its output is the result, or the call
\* throws to handleMessage.
SystemTTSDone(i, ok) ==
    /\ Ended(ok)
    /\ inv[i].pc = "systemTTS"
    /\ LET n == IF ok
                THEN [ rec |-> Synthesized([inv[i] EXCEPT !.system = "ok"], "system"),
                       busy |-> TRUE ]
                ELSE SystemTTSFailed(inv[i])
       IN  /\ inv' = [inv EXCEPT ![i] = n.rec]
           /\ isProcessing' = n.busy
           /\ task' = TasksAfter(i, n.rec)
    /\ UNCHANGED <<call, files, app, msg, platform, options, cur>>

\* switchToDevice(deviceName) has run its platform command: on success the
\* device is current, on failure the error is logged and swallowed.
SwitchResult(deviceName, ok) == IF ok THEN deviceName ELSE cur

\* A mutation of AfterSwitch: a failed switch command throws to handleMessage.
AfterSwitchThrows(r, ok) ==
    IF ok
    THEN Deliver([r EXCEPT !.switched = "ok"], SwitchResult(BlackHole, ok))
    ELSE Catch([r EXCEPT !.switched = "failed"]).rec

\* handleMessage once switchToBlackHole has returned: whatever the switch
\* command did, the next statement is the playback branch.
AfterSwitch(r, ok) ==
    Deliver([r EXCEPT !.switched = IF ok THEN "ok" ELSE "failed"],
            SwitchResult(BlackHole, ok))

\* switchToBlackHole returns (it never throws) and playback starts.
SwitchToBlackHoleDone(i, ok) ==
    /\ Ended(ok)
    /\ inv[i].pc = "switchToBlackHole"
    /\ cur' = SwitchResult(BlackHole, ok)
    /\ LET r == AfterSwitch(inv[i], ok)
       IN  /\ inv' = [inv EXCEPT ![i] = r]
           /\ task' = TasksAfter(i, r)
    /\ UNCHANGED <<call, files, app, msg, platform, options, isProcessing>>

\* The single playback ends: the promise resolves or rejects.
PlayDone(i, ok) ==
    /\ Ended(ok)
    /\ inv[i].pc = "play"
    /\ LET n == IF ok
                THEN Completed([inv[i] EXCEPT !.deliver = "ok"])
                ELSE Catch([inv[i] EXCEPT !.deliver = "raised"])
       IN  /\ inv' = [inv EXCEPT ![i] = n.rec]
           /\ isProcessing' = n.busy
    /\ UNCHANGED <<call, files, app, msg, platform, options, cur, task>>

\* Windows or another platform: the one call awaited in the try block of
\* playWithDualOutput (playOnWindowsDevices, playAudio) ends.
DualExecDone(i, ok) ==
    /\ Ended(ok)
    /\ inv[i].pc = "dual"
    /\ platform # "darwin"
    /\ IF ok
       THEN LET n == Completed([inv[i] EXCEPT !.deliver = "ok"])
            IN  /\ inv' = [inv EXCEPT ![i] = n.rec]
                /\ isProcessing' = n.busy
       ELSE /\ inv' = [inv EXCEPT ![i] = DualFailed(inv[i])]
            /\ UNCHANGED isProcessing
    /\ UNCHANGED <<call, files, app, msg, platform, options, cur, task>>

\* The fallback playAudio of playWithDualOutput ends; its rejection leaves
\* playWithDualOutput and is caught by handleMessage.
FallbackPlayDone(i, ok) ==
    /\ Ended(ok)
    /\ inv[i].pc = "fallbackPlay"
    /\ LET n == IF ok
                THEN Completed([inv[i] EXCEPT !.fb = "ok", !.deliver = "ok"])
                ELSE Catch([inv[i] EXCEPT !.fb = "failed", !.deliver = "raised"])
       IN  /\ inv' = [inv EXCEPT ![i] = n.rec]
           /\ isProcessing' = n.busy
    /\ UNCHANGED <<call, files, app, msg, platform, options, cur, task>>

\* ttsEngine.cleanupFile(audioFilePath): the results the awaited call may
\* have, returning or throwing like any other external call.
CleanupFileResults == Outcomes

\* A mutation of Thrown: no try block of the chat client catches the error.
ThrownUncaught(r) == [r EXCEPT !.client = "unhandled"]

\* An error leaves DiscordTTSBridge.handleMessage: the promise the chat
\* client awaits in its own handleMessage rejects, and the catch around the
\* onMessage call logs it.
Thrown(r) == [r EXCEPT !.client = "logged"]

\* ttsEngine.cleanupFile(path): the file is removed when the call returns and
\* left when it throws.
CleanupFile(fs, path, ok) == IF ok THEN fs \ {path} ELSE fs

\* finally of handleMessage, after the await: cleanupFile returned and the
\* flag is reset, or cleanupFile threw and the statement after it is skipped.
CleanupFileDone(i, ok) ==
    /\ Ended(ok)
    /\ inv[i].pc = "cleanupFile"
    /\ IF ok
       THEN /\ inv' = [inv EXCEPT ![i].pc = "done"]
            /\ isProcessing' = FALSE
       ELSE /\ inv' = [inv EXCEPT ![i] = Thrown([@ EXCEPT !.pc = "done",
                                                          !.outcome = "escaped"])]
            /\ UNCHANGED isProcessing
    /\ files' = CleanupFile(files, OutputPath(i), ok)
    /\ UNCHANGED <<call, app, msg, platform, options, cur, task>>

----------------------------------------------------------------------------
(* AudioPlayer: delivery of a synthesis result held in memory *)

\* TTSResult.format, as far as the delivery code branches on it.
Formats == {"wav", "raw"}

\* TTSResult.sampleRate and TTSResult.channels.  Both are optional; 0 stands
\* for a field that is left out as well, since || takes the two alike.
SampleRates == {0, 22050, 48000}

ChannelCounts == {0, 1, 2}

\* The synthesis results a client hands to the buffer API.
TTSResults ==
    [ format : Formats, sampleRate : SampleRates, channels : ChannelCounts ]

\* value || fallback, for numbers.
OrDefault(value, fallback) == IF value = 0 THEN fallback ELSE value

\* No player process was started yet.
NotInvoked == [ player |-> "none", rate |-> 0, channels |-> 0 ]

\* A player that is given a file path or a script, with no sample rate and
\* no channel count.
FileArgs == [ player |-> "file", rate |-> 0, channels |-> 0 ]

\* A mutation of PlayRawPCMArgs: the defaults, whatever the result carries.
PlayRawPCMDefaults(c) == [ player |-> "afplay", rate |-> 22050, channels |-> 1 ]

\* playRawPCMWithAfplay: afplay is spawned with --data-format LEF32@rate and
\* --channels channels and reads the buffer from its standard input.
PlayRawPCMArgs(c) ==
    [ player |-> "afplay",
      rate |-> OrDefault(c.sampleRate, 22050),
      channels |-> OrDefault(c.channels, 1) ]

\* The per-device calls of a call on the buffer API are kept in this row of
\* task.
CallSlot == 1

\* A call on the buffer API that has not been made yet.  frames are the
\* try blocks the call is inside of, innermost first; wrote are the temporary
\* files the call has written.
NewCall ==
    [ op |-> "none", format |-> NULL, sampleRate |-> 0, channels |-> 0,
      args |-> NotInvoked, pc |-> "idle", frames |-> <<>>,
      nPlay |-> 0, nFallback |-> 0, fbFailed |-> FALSE,
      wrote |-> {}, result |-> "none",
      failed |-> FALSE, out |-> NULL, value |-> NULL ]

\* The call enters a try block of the given kind; file is the temporary file
\* its finally removes (0 when it has none).
Push(c, kind, file) ==
    [c EXCEPT !.frames = <<[kind |-> kind, file |-> file]>> \o @]

\* bufferToTempFile names the file after the clock and a random string: a
\* name no earlier file of the call has.
TempFileName(c) == Cardinality(c.wrote) + 1

\* bufferToTempFile: the buffer is written to a new file in temp_audio.
BufferToTempFile(st) ==
    [ call |-> [st.call EXCEPT !.wrote = @ \cup {TempFileName(st.call)}],
      files |-> st.files \cup {TempFileName(st.call)} ]

\* A mutation of CleanupTempFile: the file is left where it is.
CleanupTempFileSkipped(fs, f) == fs

\* cleanupTempFile: the file is unlinked if it exists.  The unlink of a file
\* the process wrote itself a moment ago is taken to succeed.
CleanupTempFile(fs, f) == fs \ {f}

\* playAudioFromBuffer: raw PCM on macOS and WAV on Windows are played from
\* memory; anything else is written to a temporary file, played with
\* playAudio inside try, and removed in finally.
PlayAudioFromBuffer(st) ==
    LET c == [st.call EXCEPT !.nPlay = @ + 1]
    IN  IF platform = "darwin" /\ c.format = "raw"
        THEN [ call |-> [c EXCEPT !.pc = "playRawPCMWithAfplay",
                                  !.args = PlayRawPCMArgs(c)],
               files |-> st.files ]
        ELSE IF platform = "win32" /\ c.format = "wav"
        THEN [ call |-> [c EXCEPT !.pc = "playWAVWithPowerShell",
                                  !.args = FileArgs],
               files |-> st.files ]
        ELSE LET w == BufferToTempFile([call |-> c, files |-> st.files])
             IN  [ call |-> [Push(w.call, "finallyCleanup", TempFileName(c))
                                EXCEPT !.pc = "playAudio", !.args = FileArgs],
                   files |-> w.files ]

\* A catch block that falls back: playAudioFromBuffer is called once more.
FallbackFromBuffer(st) ==
    PlayAudioFromBuffer([st EXCEPT !.call.nFallback = @ + 1])

\* The awaited operation of the call ended with result ok: the try blocks
\* the call is inside of run their finally or catch, innermost first, until
\* one of them starts a new playback or the call returns or throws.
RECURSIVE Unwind(_, _)
Unwind(st, ok) ==
    IF st.call.frames = <<>>
    THEN [st EXCEPT !.call.pc = "returned",
                    !.call.result = IF ok THEN "ok" ELSE "raised"]
    ELSE LET fr == Head(st.call.frames)
             rest == [st EXCEPT !.call.frames = Tail(@)]
         IN  IF fr.kind = "finallyCleanup"
             THEN Unwind([rest EXCEPT !.files = CleanupTempFile(@, fr.file)], ok)
             ELSE IF ok
             THEN Unwind(rest, TRUE)
             ELSE FallbackFromBuffer(rest)

\* playOnWindowsDevicesFromBuffer: a WAV buffer is handed to one PowerShell
\* command inside try, whose catch falls back to playAudioFromBuffer; any
\* other format goes through a temporary file and playOnWindowsDevices.
PlayOnWindowsDevicesFromBuffer(st) ==
    IF st.call.format # "wav"
    THEN LET w == BufferToTempFile(st)
         IN  [w EXCEPT !.call = [Push(@, "finallyCleanup", TempFileName(st.call))
                                    EXCEPT !.pc = "playOnWindowsDevices",
                                           !.args = FileArgs]]
    ELSE [st EXCEPT !.call = [Push(@, "catchWindows", 0)
                                 EXCEPT !.pc = "windowsDualExec",
                                        !.args = FileArgs]]

\* playOnMacOSDevicesFromBuffer: raw PCM is played by two
\* playOnSpecificMacOSDeviceFromBuffer calls awaited with Promise.all, each
\* of which hands the result to playRawPCMWithAfplay; any other format is
\* written to a temporary file for playOnMacOSDevices.  args are the
\* arguments the per-device calls start their player with.
PlayOnMacOSDevicesFromBuffer(st) ==
    IF st.call.format = "raw"
    THEN [st EXCEPT !.call.pc = "promiseAll",
                    !.call.args = PlayRawPCMArgs(st.call)]
    ELSE LET w == BufferToTempFile(st)
         IN  [w EXCEPT !.call = [Push(@, "finallyCleanup", TempFileName(st.call))
                                    EXCEPT !.pc = "promiseAll",
                                           !.args = FileArgs]]

\* playWithDualOutputFromBuffer: playAudioFromBuffer unless dual output is
\* configured; otherwise the platform's dual playback inside try, whose catch
\* falls back to playAudioFromBuffer.
PlayWithDualOutputFromBuffer(st) ==
    IF ~DualConfigured
    THEN PlayAudioFromBuffer(st)
    ELSE LET t == [st EXCEPT !.call = Push(@, "catchDual", 0)]
         IN  IF platform = "win32" /\ st.call.format = "wav"
             THEN PlayOnWindowsDevicesFromBuffer(t)
             ELSE IF platform = "darwin"
             THEN PlayOnMacOSDevicesFromBuffer(t)
             ELSE PlayAudioFromBuffer(t)

\* playWithAfplayFromBuffer: playAudioFromBuffer off macOS; on macOS raw PCM
\* is played from memory and any other format through a temporary file.
PlayWithAfplayFromBuffer(st) ==
    IF platform # "darwin"
    THEN PlayAudioFromBuffer(st)
    ELSE IF st.call.format = "raw"
    THEN [st EXCEPT !.call.pc = "playRawPCMWithAfplay", !.call.nPlay = @ + 1,
                    !.call.args = PlayRawPCMArgs(st.call)]
    ELSE LET w == BufferToTempFile(st)
         IN  [w EXCEPT !.call = [Push(@, "finallyCleanup", TempFileName(st.call))
                                    EXCEPT !.pc = "playWithAfplay", !.nPlay = @ + 1,
                                           !.args = FileArgs]]

\* The entry points of the buffer API.
BufferOps ==
    {"playAudioFromBuffer", "playWithDualOutputFromBuffer", "playWithAfplayFromBuffer"}

\* The call op(ttsResult) up to its first awaited external operation.
Enter(op, st) ==
    IF op = "playAudioFromBuffer" THEN PlayAudioFromBuffer(st)
    ELSE IF op = "playWithDualOutputFromBuffer" THEN PlayWithDualOutputFromBuffer(st)
    ELSE PlayWithAfplayFromBuffer(st)

\* A client calls op(ttsResult).
CallFromBuffer(op, ttsResult) ==
    /\ call.pc = "idle"
    /\ LET st == Enter(op, [ call |-> [call EXCEPT
                                          !.op = op,
                                          !.format = ttsResult.format,
                                          !.sampleRate = ttsResult.sampleRate,
                                          !.channels = ttsResult.channels],
                             files |-> files ])
       IN  /\ call' = st.call
           /\ files' = st.files
           /\ task' = IF st.call.pc = "promiseAll"
                      THEN [task EXCEPT ![CallSlot] = StartedTasks(cur)]
                      ELSE task
    /\ UNCHANGED <<app, msg, platform, options, isProcessing, cur, inv, faults>>

\* The external operations a call awaits for one playback: a player process
\* or a PowerShell command.
PlaybackPcs ==
    {"playRawPCMWithAfplay", "playWAVWithPowerShell", "playAudio",
     "playWithAfplay", "playOnWindowsDevices", "windowsDualExec"}

\* The playback the call awaits ends: its promise resolves or rejects.
PlaybackDone(ok) ==
    /\ Ended(ok)
    /\ call.pc \in PlaybackPcs
    /\ LET c == [call EXCEPT !.fbFailed = @ \/ (~ok /\ call.nFallback > 0)]
           st == Unwind([call |-> c, files |-> files], ok)
       IN  /\ call' = st.call
           /\ files' = st.files
    /\ UNCHANGED <<app, msg, platform, options, isProcessing, cur, inv, task>>

\* await Promise.all(promises) of the call, once the per-device calls of row
\* i are tk: the first rejection rejects the await, the last fulfilment
\* resolves it.
AwaitedByCall(i, tk) ==
    LET st == [call |-> call, files |-> files]
    IN  IF i # CallSlot \/ call.pc # "promiseAll"
        THEN st
        ELSE IF \E t \in Tasks : tk[t].pc = "done" /\ tk[t].res = "failed"
        THEN Unwind(st, FALSE)
        ELSE IF \A t \in Tasks : tk[t].pc = "done"
        THEN Unwind(st, TRUE)
        ELSE st

----------------------------------------------------------------------------
(* AudioPlayer: device queries *)

\* Lines a platform command may print: nothing, blanks, or a device name
\* with or without blanks around it.
Lines == {"", " ", "BlackHole", " Speaker "}

\* String.prototype.trim on those lines.
Trim(l) ==
    IF l = " " THEN ""
    ELSE IF l = " Speaker " THEN "Speaker"
    ELSE l

\* What the enumeration command may print: up to MaxLines lines.
MaxLines == 2

Stdouts == UNION {[1 .. n -> Lines] : n \in 0 .. MaxLines}

\* stdout.split('\n').map(line => line.trim()).filter(device => device)
ParseDevices(out) ==
    LET trimmed == [k \in 1 .. Len(out) |-> Trim(out[k])]
    IN  SelectSeq(trimmed, LAMBDA d : d # "")

\* catch of listWindowsDevices / listMacOSDevices: the failure is logged and
\* a list holding one default name is returned.
ListFailed ==
    IF platform = "win32" THEN <<"Default Device">> ELSE <<"Built-in Output">>

\* A client calls listOutputDevices(): Windows and macOS run the platform's
\* enumeration command, any other platform returns the empty list at once.
CallListOutputDevices ==
    /\ call.pc = "idle"
    /\ call' = IF platform \in {"win32", "darwin"}
               THEN [call EXCEPT !.op = "listOutputDevices", !.pc = "listDevices"]
               ELSE [call EXCEPT !.op = "listOutputDevices", !.pc = "returned",
                                 !.result = "ok", !.value = <<>>]
    /\ UNCHANGED <<app, msg, platform, options, isProcessing, cur, inv, task, faults, files>>

\* The enumeration command ends: its output is parsed, or its failure is
\* caught inside listWindowsDevices / listMacOSDevices.
ListDevicesDone(ok, out) ==
    /\ Ended(ok)
    /\ call.pc = "listDevices"
    /\ call' = [call EXCEPT !.pc = "returned", !.result = "ok",
                            !.failed = ~ok,
                            !.out = IF ok THEN out ELSE NULL,
                            !.value = IF ok THEN ParseDevices(out) ELSE ListFailed]
    /\ UNCHANGED <<app, msg, platform, options, isProcessing, cur, inv, task, files>>

\* A mutation of QueryResult: the output is returned as printed.
QueryResultUntrimmed(ok, out) == IF ok THEN out ELSE NULL

\* getCurrentWindowsDevice / getCurrentMacOSDevice: stdout.trim() || null,
\* and null from the catch when the command failed.
QueryResult(ok, out) ==
    IF ok /\ Trim(out) # "" THEN Trim(out) ELSE NULL

\* A client calls getCurrentOutputDevice(): Windows and macOS run the
\* platform's query command, any other platform returns null at once.
CallGetCurrentOutputDevice ==
    /\ call.pc = "idle"
    /\ call' = IF platform \in {"win32", "darwin"}
               THEN [call EXCEPT !.op = "getCurrentOutputDevice", !.pc = "queryDevice"]
               ELSE [call EXCEPT !.op = "getCurrentOutputDevice", !.pc = "returned",
                                 !.result = "ok", !.value = NULL]
    /\ UNCHANGED <<app, msg, platform, options, isProcessing, cur, inv, task, faults, files>>

\* The query command ends.
QueryDeviceDone(ok, out) ==
    /\ Ended(ok)
    /\ call.pc = "queryDevice"
    /\ call' = [call EXCEPT !.pc = "returned", !.result = "ok",
                            !.failed = ~ok,
                            !.out = IF ok THEN out ELSE NULL,
                            !.value = QueryResult(ok, out)]
    /\ UNCHANGED <<app, msg, platform, options, isProcessing, cur, inv, task, files>>

----------------------------------------------------------------------------
(* AudioPlayer: macOS dual output, playOnMacOSDevices *)

\* await Promise.all(promises) in playOnMacOSDevices, seen from invocation
\* record r once its tasks are tk: the first rejection rejects the await at
\* once (the catch of playWithDualOutput runs), the last fulfilment resolves
\* it.  A task that settles after the await was left changes nothing.
PromiseAll(r, tk) ==
    IF r.pc # "dual"
    THEN [ rec |-> r, busy |-> isProcessing ]
    ELSE IF \E t \in Tasks : tk[t].pc = "done" /\ tk[t].res = "failed"
    THEN [ rec |-> DualFailed(r), busy |-> TRUE ]
    ELSE IF \A t \in Tasks : tk[t].pc = "done"
    THEN Completed([r EXCEPT !.deliver = "ok"])
    ELSE [ rec |-> r, busy |-> TRUE ]

\* The call t has returned or thrown with result res: its locals are gone.
Settled(tk, res) == [tk EXCEPT !.pc = "done", !.res = res,
                               !.start = NULL, !.orig = NULL]

\* Task t of invocation i settles as the row of tasks becomes tk.
Settle(i, tk) ==
    LET n == PromiseAll(inv[i], tk)
        m == AwaitedByCall(i, tk)
    IN  /\ task' = [task EXCEPT ![i] = tk]
        /\ inv' = [inv EXCEPT ![i] = n.rec]
        /\ isProcessing' = n.busy
        /\ call' = m.call
        /\ files' = m.files

\* getCurrentOutputDevice returns: the name the query printed, or null when
\* the command failed or printed nothing.
GetCurrentOutputDevice(ok) == IF ok THEN cur ELSE NULL

\* playOnSpecificMacOSDevice, first await: originalDevice is captured.
TaskQueryDone(i, t, ok) ==
    /\ Ended(ok)
    /\ task[i][t].pc = "query"
    /\ task' = [task EXCEPT ![i][t].pc = "switch",
                            ![i][t].orig = GetCurrentOutputDevice(ok)]
    /\ UNCHANGED <<call, files, app, msg, platform, options, isProcessing, cur, inv>>

\* playOnSpecificMacOSDevice, try block: switchToDevice(deviceName) returns
\* and the playback is started.
TaskSwitchDone(i, t, ok) ==
    /\ Ended(ok)
    /\ task[i][t].pc = "switch"
    /\ cur' = SwitchResult(TaskDevice(t), ok)
    /\ task' = [task EXCEPT ![i][t].pc = "play"]
    /\ UNCHANGED <<call, files, app, msg, platform, options, isProcessing, inv>>

\* finally of playOnSpecificMacOSDevice: the restore is issued only when a
\* device was captured.
RestoreNeeded(tk) == tk.orig # NULL

\* playOnSpecificMacOSDevice: the playback ends; finally either awaits the
\* restoring switchToDevice or, with nothing captured, the call settles.
TaskPlayDone(i, t, ok) ==
    /\ Ended(ok)
    /\ task[i][t].pc = "play"
    /\ LET res == IF ok THEN "ok" ELSE "failed"
       IN  IF RestoreNeeded(task[i][t])
           THEN /\ task' = [task EXCEPT ![i][t].pc = "restore", ![i][t].res = res]
                /\ UNCHANGED <<inv, isProcessing, call, files>>
           ELSE Settle(i, [task[i] EXCEPT ![t] = Settled(@, res)])
    /\ UNCHANGED <<app, msg, platform, options, cur>>

\* A mutation of RestoreResult: a failed restore throws out of finally.
RestoreResultThrows(res, ok) == IF ok THEN res ELSE "failed"

\* How the call ends after the restore: switchToDevice catches the failure
\* of its command, so finally completes normally and the result of the try
\* block, res, stands.
RestoreResult(res, ok) == res

\* finally of playOnSpecificMacOSDevice: switchToDevice(originalDevice)
\* returns and the call settles with the playback's result.
TaskRestoreDone(i, t, ok) ==
    /\ Ended(ok)
    /\ task[i][t].pc = "restore"
    /\ cur' = SwitchResult(task[i][t].orig, ok)
    /\ Settle(i, [task[i] EXCEPT ![t] = Settled(@, RestoreResult(@.res, ok))])
    /\ UNCHANGED <<app, msg, platform, options>>

----------------------------------------------------------------------------
(* startMainApplication and DiscordTTSBridge.start *)

\* The process as the command line has been parsed.
\* The value checkConnection has not returned yet.
NoCheck == [ raised |-> FALSE, value |-> FALSE ]

\* response is how the fetch of checkConnection ended, and voicevox what
\* checkConnection made of it; both are locals of checkPrerequisites.
NewApp ==
    [ pc |-> "parse", exit |-> NULL, response |-> "none", voicevox |-> NoCheck ]

\* !value of JavaScript for an option that is a string or undefined.
Missing(value) == value \in {NULL, ""}

\* A mutation of ConfigError: the engine name is not checked.
ConfigErrorEngineUnchecked(o) ==
    IF Missing(o.token) THEN "token"
    ELSE IF Missing(o.channel) THEN "channel"
    ELSE "none"

\* The checks at the head of startMainApplication, in their order: the first
\* one that fails logs its message and exits.
ConfigError(o) ==
    IF Missing(o.token) THEN "token"
    ELSE IF Missing(o.channel) THEN "channel"
    ELSE IF o.engine # "system" /\ o.engine # "voicevox" THEN "engine"
    ELSE "none"

\* How the fetch of GET /version can end: a response with an OK status, a
\* response with another status, a rejection (the engine is not reachable),
\* and the abort by the timer after 5000 ms, which rejects the fetch too.
Responses == {"ok", "notOk", "networkError", "timeout"}

FetchResults == IF faults < MaxFaults THEN Responses ELSE {"ok"}

\* A mutation of CheckConnection: a rejected fetch is not caught.
CheckConnectionNoCatch(response) ==
    IF response \in {"ok", "notOk"}
    THEN [ raised |-> FALSE, value |-> response = "ok" ]
    ELSE [ raised |-> TRUE, value |-> FALSE ]

\* checkConnection: response.ok of the response; the catch turns a rejection
\* into false.
CheckConnection(response) == [ raised |-> FALSE, value |-> response = "ok" ]

\* checkEngineAvailability after the system engine check: checkConnection is
\* called when a voicevox engine was constructed.
SystemTTSChecked(a) ==
    IF options.engine = "voicevox"
    THEN [a EXCEPT !.pc = "checkConnection"]
    ELSE [a EXCEPT !.pc = "checkPrerequisites"]

\* process.exit(code)
Exit(code) == [NewApp EXCEPT !.pc = "exited", !.exit = code]

\* startMainApplication: a failed check exits with status 1; otherwise the
\* bridge is constructed and start() runs up to its first await, inside
\* checkPrerequisites.
StartMainApplication ==
    /\ app.pc = "parse"
    /\ app' = IF ConfigError(options) # "none"
              THEN Exit(1)
              ELSE IF platform \in {"win32", "darwin"}
              THEN [app EXCEPT !.pc = "checkSystemTTS"]
              ELSE SystemTTSChecked(app)
    /\ UNCHANGED <<platform, options, isProcessing, cur, inv, task, faults,
                   call, files, msg>>

\* The command of the system engine check returns: its failure is caught
\* and logged, and checkEngineAvailability goes on either way.
SystemTTSCheckDone(ok) ==
    /\ Ended(ok)
    /\ app.pc = "checkSystemTTS"
    /\ app' = SystemTTSChecked(app)
    /\ UNCHANGED <<platform, options, isProcessing, cur, inv, task, call, files,
                   msg>>

\* The fetch of checkConnection ends: with a response, in a rejection, or
\* cut off by the timer.  An error that left checkConnection would leave
\* checkPrerequisites too and be caught by start(), which exits.
CheckConnectionDone(response) ==
    /\ Ended(response = "ok")
    /\ app.pc = "checkConnection"
    /\ LET r == CheckConnection(response)
       IN  app' = IF r.raised
                  THEN [Exit(1) EXCEPT !.response = response, !.voicevox = r]
                  ELSE [app EXCEPT !.pc = "checkPrerequisites",
                                   !.response = response, !.voicevox = r]
    /\ UNCHANGED <<platform, options, isProcessing, cur, inv, task, call, files,
                   msg>>

\* checkPrerequisites returns: every other command it runs has its failure
\* caught and logged, so start() goes on to connect either way.
PrerequisitesChecked(ok) ==
    /\ Ended(ok)
    /\ app.pc = "checkPrerequisites"
    /\ app' = [NewApp EXCEPT !.pc = "connect"]
    /\ UNCHANGED <<platform, options, isProcessing, cur, inv, task, call, files,
                   msg>>

\* client.login returns: the client is ready and delivers message events, or
\* connect throws and the catch of start() exits with status 1.
ConnectDone(ok) ==
    /\ Ended(ok)
    /\ app.pc = "connect"
    /\ app' = IF ok THEN [app EXCEPT !.pc = "ready"] ELSE Exit(1)
    /\ UNCHANGED <<platform, options, isProcessing, cur, inv, task, call, files,
                   msg>>

----------------------------------------------------------------------------
(* cleanMessageText and DiscordTTSClient.handleMessage *)

\* A text is a sequence of these: an ordinary character, a blank, a line
\* break (NL), the comment marker, an emoji of the removed ranges, the two
\* halves of a URL scheme ("htt" next to "p://" reads http://) and a user
\* mention (<@digits>).
Chars == {"a", " ", "NL", "#", "EMOJI", "htt", "p://", "<@1>"}

\* The pieces texts are put together from: every single character, a URL,
\* and a URL with an emoji inside its scheme.
Pieces ==
    {<<c>> : c \in Chars}
        \cup {<<"htt", "p://", "a">>, <<"htt", "EMOJI", "p://", "a">>}

\* The texts of at most n pieces.
RECURSIVE TextsOf(_)
TextsOf(n) ==
    IF n = 0 THEN {<<>>}
    ELSE LET S == TextsOf(n - 1)
         IN  S \cup {s \o q : s \in S, q \in Pieces}

\* Most pieces of a message text the chat client is given.
MaxTextLen == 3

Texts == TextsOf(MaxTextLen)

\* Most pieces of a text given to cleanMessageText on its own.
MaxCleanLen == 4

CleanTexts == TextsOf(MaxCleanLen)

\* \s of the regular expressions, and the characters trim removes.
IsSpace(c) == c \in {" ", "NL"}

RECURSIVE TrimStart(_)
TrimStart(s) ==
    IF s # <<>> /\ IsSpace(Head(s)) THEN TrimStart(Tail(s)) ELSE s

RECURSIVE TrimEnd(_)
TrimEnd(s) ==
    IF s # <<>> /\ IsSpace(s[Len(s)]) THEN TrimEnd(SubSeq(s, 1, Len(s) - 1)) ELSE s

\* String.prototype.trim
TrimText(s) == TrimEnd(TrimStart(s))

\* s without its leading run of characters that are not \s.
RECURSIVE DropNonSpace(_)
DropNonSpace(s) ==
    IF s # <<>> /\ ~IsSpace(Head(s)) THEN DropNonSpace(Tail(s)) ELSE s

\* A match of /https?:\/\/[^\s]+/ starts at the head of s: the scheme,
\* followed by at least one character that is not \s.
UrlAtHead(s) ==
    /\ Len(s) >= 3
    /\ s[1] = "htt" /\ s[2] = "p://"
    /\ ~IsSpace(s[3])

\* replace(/https?:\/\/[^\s]+/g, link): every match, the scheme with all
\* characters after it that are not \s, is replaced by the link word.
RECURSIVE ReplaceUrls(_)
ReplaceUrls(s) ==
    IF s = <<>> THEN <<>>
    ELSE IF UrlAtHead(s)
    THEN <<"LINK">> \o ReplaceUrls(DropNonSpace(s))
    ELSE <<Head(s)>> \o ReplaceUrls(Tail(s))

\* replace(/<@!?(\d+)>/g, user)
ReplaceMentions(s) ==
    [k \in 1 .. Len(s) |-> IF s[k] = "<@1>" THEN "USER" ELSE s[k]]

\* A mutation of ReplaceNewlines: every line break becomes a full stop.
ReplaceEachNewline(s) ==
    [k \in 1 .. Len(s) |-> IF s[k] = "NL" THEN "STOP" ELSE s[k]]

\* replace(/\n+/g, full stop): a run of line breaks becomes one full stop.
RECURSIVE ReplaceNewlines(_)
ReplaceNewlines(s) ==
    IF s = <<>> THEN <<>>
    ELSE IF Head(s) = "NL"
    THEN IF Len(s) >= 2 /\ s[2] = "NL"
         THEN ReplaceNewlines(Tail(s))
         ELSE <<"STOP">> \o ReplaceNewlines(Tail(s))
    ELSE <<Head(s)>> \o ReplaceNewlines(Tail(s))

\* The five replace calls that delete the emoji ranges.
RemoveEmoji(s) == SelectSeq(s, LAMBDA c : c # "EMOJI")

\* The substitutions of cleanMessageText and its final trim.
Substituted(text) ==
    TrimText(RemoveEmoji(ReplaceNewlines(ReplaceMentions(ReplaceUrls(text)))))

\* The value null, and a string value, as cleanMessageText returns them.
Null == [ null |-> TRUE, text |-> <<>> ]

Str(s) == [ null |-> FALSE, text |-> s ]

\* text.startsWith('#')
StartsWithMarker(text) == text # <<>> /\ Head(text) = "#"

cleanMessageText(text) ==
    IF TrimText(text) = <<>> THEN Null
    ELSE IF StartsWithMarker(text) THEN Null
    ELSE Str(Substituted(text))

\* A mutation of Falsy: only null counts.
FalsyNullOnly(r) == r.null

\* !cleanedText in DiscordTTSClient.handleMessage: null and the empty string.
Falsy(r) == r.null \/ r.text = <<>>

\* The user ids of message authors.
Users == {"u1", "u2"}

\* options.allowedUserIds of the chat client: left out (undefined), or an
\* array of user ids.
NoList == [ given |-> FALSE, ids |-> {} ]

AllowLists == {NoList} \cup {[ given |-> TRUE, ids |-> u ] : u \in {{}, {"u1"}}}

\* A message event that has not been handled.
NewMsg ==
    [ content |-> <<>>, bot |-> FALSE, channelOk |-> TRUE, author |-> "u1",
      allowedUserIds |-> NoList, pc |-> "received", cleaned |-> Null ]

\* A mutation of NotAllowed: the allow list is not looked at.
NotAllowedNever(m) == FALSE

\* The allow-list test of DiscordTTSClient.handleMessage: a list that is
\* given and not empty, and the author's id is not in it.
NotAllowed(m) ==
    /\ m.allowedUserIds.given /\ m.allowedUserIds.ids # {}
    /\ m.author \notin m.allowedUserIds.ids

\* A mutation of Handled: the channel of the message is not looked at.
HandledAnyChannel(m) ==
    IF m.bot \/ NotAllowed(m)
    THEN [m EXCEPT !.pc = "ignored"]
    ELSE LET cleanedText == cleanMessageText(m.content)
         IN  IF Falsy(cleanedText)
             THEN [m EXCEPT !.pc = "skipped", !.cleaned = cleanedText]
             ELSE [m EXCEPT !.pc = "onMessage", !.cleaned = cleanedText]

\* A mutation of Handled: a text that cleans to nothing is handed on too.
HandledNoSkip(m) ==
    IF m.bot \/ ~m.channelOk \/ NotAllowed(m)
    THEN [m EXCEPT !.pc = "ignored"]
    ELSE [m EXCEPT !.pc = "onMessage",
                   !.cleaned = Str(Substituted(m.content))]

\* DiscordTTSClient.handleMessage up to its call of onMessage: messages of
\* bots, of other channels and of users off the allow list are ignored; a
\* text that cleans to nothing is skipped; any other is handed to onMessage.
Handled(m) ==
    IF m.bot \/ ~m.channelOk \/ NotAllowed(m)
    THEN [m EXCEPT !.pc = "ignored"]
    ELSE LET cleanedText == cleanMessageText(m.content)
         IN  IF Falsy(cleanedText)
             THEN [m EXCEPT !.pc = "skipped", !.cleaned = cleanedText]
             ELSE [m EXCEPT !.pc = "onMessage", !.cleaned = cleanedText]

\* The event the next call of the bridge's handleMessage is about.
NextEvent ==
    CHOOSE i \in Events :
        inv[i].pc = "new" /\ \A j \in Events : j < i => inv[j].pc # "new"

\* The MessageCreate listener runs DiscordTTSClient.handleMessage, which
\* calls onMessage, the bridge's handleMessage, with the cleaned text.
MessageCreate ==
    /\ msg.pc = "received"
    /\ msg' = Handled(msg)
    /\ IF msg'.pc = "onMessage"
       THEN OnMessage(NextEvent, msg'.cleaned.text)
       ELSE UNCHANGED <<inv, isProcessing>>
    /\ UNCHANGED <<platform, options, cur, task, faults, call, files, app>>

----------------------------------------------------------------------------
(* The program *)

OptionSets ==
    [ token : {NULL, "", "token"},
      channel : {NULL, "", "id"},
      engine : {"system", "voicevox", "macos"},
      useAfplay : BOOLEAN,
      enableDualOutput : BOOLEAN,
      speakerDevice : {NULL, Speaker},
      voice : {"Otoya"}, rate : {180}, volume : {80} ]

Init ==
    /\ platform \in Platforms
    /\ options \in OptionSets
    /\ isProcessing = FALSE
    /\ cur = "BuiltIn"
    /\ inv = [i \in Events |-> NewInv]
    /\ task = [i \in Events |-> [t \in Tasks |-> NewTask]]
    /\ faults = 0
    /\ call = NewCall
    /\ files = {}
    /\ app = NewApp
    /\ msg = NewMsg

Next ==
    \/ StartMainApplication
    \/ \E ok \in Outcomes : SystemTTSCheckDone(ok)
    \/ \E response \in FetchResults : CheckConnectionDone(response)
    \/ \E ok \in Outcomes : PrerequisitesChecked(ok)
    \/ \E ok \in Outcomes : ConnectDone(ok)
    \/ \E i \in Events : HandleMessage(i, TextOf(i))
    \/ \E i \in Events, ok \in Outcomes : AudioQueryDone(i, ok)
    \/ \E i \in Events, ok \in Outcomes : SynthesisDone(i, ok)
    \/ \E i \in Events, ok \in Outcomes : SystemTTSDone(i, ok)
    \/ \E i \in Events, ok \in Outcomes : SwitchToBlackHoleDone(i, ok)
    \/ \E i \in Events, ok \in Outcomes : PlayDone(i, ok)
    \/ \E i \in Events, ok \in Outcomes : DualExecDone(i, ok)
    \/ \E i \in Events, ok \in Outcomes : FallbackPlayDone(i, ok)
    \/ \E i \in Events, ok \in CleanupFileResults : CleanupFileDone(i, ok)
    \/ \E i \in Events, t \in Tasks, ok \in Outcomes : TaskQueryDone(i, t, ok)
    \/ \E i \in Events, t \in Tasks, ok \in Outcomes : TaskSwitchDone(i, t, ok)
    \/ \E i \in Events, t \in Tasks, ok \in Outcomes : TaskPlayDone(i, t, ok)
    \/ \E i \in Events, t \in Tasks, ok \in Outcomes : TaskRestoreDone(i, t, ok)

Spec == Init /\ [][Next]_vars

\* Every external call that is awaited returns or fails in the end: the
\* commands and requests of startup, the engines, the device commands, the
\* players and the release of the audio file.
ExternalCallsEnd ==
    /\ WF_vars(\E ok \in Outcomes : SystemTTSCheckDone(ok))
    /\ WF_vars(\E response \in FetchResults : CheckConnectionDone(response))
    /\ WF_vars(\E ok \in Outcomes : PrerequisitesChecked(ok))
    /\ WF_vars(\E ok \in Outcomes : ConnectDone(ok))
    /\ \A i \in Events :
           /\ WF_vars(\E ok \in Outcomes : AudioQueryDone(i, ok))
           /\ WF_vars(\E ok \in Outcomes : SynthesisDone(i, ok))
           /\ WF_vars(\E ok \in Outcomes : SystemTTSDone(i, ok))
           /\ WF_vars(\E ok \in Outcomes : SwitchToBlackHoleDone(i, ok))
           /\ WF_vars(\E ok \in Outcomes : PlayDone(i, ok))
           /\ WF_vars(\E ok \in Outcomes : DualExecDone(i, ok))
           /\ WF_vars(\E ok \in Outcomes : FallbackPlayDone(i, ok))
           /\ WF_vars(\E ok \in CleanupFileResults : CleanupFileDone(i, ok))
           /\ \A t \in Tasks :
                  /\ WF_vars(\E ok \in Outcomes : TaskQueryDone(i, t, ok))
                  /\ WF_vars(\E ok \in Outcomes : TaskSwitchDone(i, t, ok))
                  /\ WF_vars(\E ok \in Outcomes : TaskPlayDone(i, t, ok))
                  /\ WF_vars(\E ok \in Outcomes : TaskRestoreDone(i, t, ok))

\* The program with every external call ending.
SpecLive == Spec /\ ExternalCallsEnd

\* The AudioPlayer on its own: a client makes one call on the buffer API.
PlayerOptionSets ==
    {o \in OptionSets : /\ o.token = "token" /\ o.channel = "id"
                        /\ o.engine = "system" /\ ~o.useAfplay}

InitPlayer ==
    /\ platform \in Platforms
    /\ options \in PlayerOptionSets
    /\ isProcessing = FALSE
    /\ cur = "BuiltIn"
    /\ inv = [i \in Events |-> NewInv]
    /\ task = [i \in Events |-> [t \in Tasks |-> NewTask]]
    /\ faults = 0
    /\ call = NewCall
    /\ files = {}
    /\ app = NewApp
    /\ msg = NewMsg

NextPlayer ==
    \/ \E op \in BufferOps, ttsResult \in TTSResults :
           CallFromBuffer(op, ttsResult)
    \/ \E ok \in Outcomes : PlaybackDone(ok)
    \/ CallListOutputDevices
    \/ \E ok \in Outcomes, out \in Stdouts : ListDevicesDone(ok, out)
    \/ CallGetCurrentOutputDevice
    \/ \E ok \in Outcomes, out \in Lines : QueryDeviceDone(ok, out)
    \/ \E t \in Tasks, ok \in Outcomes : TaskQueryDone(CallSlot, t, ok)
    \/ \E t \in Tasks, ok \in Outcomes : TaskSwitchDone(CallSlot, t, ok)
    \/ \E t \in Tasks, ok \in Outcomes : TaskPlayDone(CallSlot, t, ok)
    \/ \E t \in Tasks, ok \in Outcomes : TaskRestoreDone(CallSlot, t, ok)

SpecPlayer == InitPlayer /\ [][NextPlayer]_vars

\* The request that is in flight as the message arrives, if one is.
InFlightInv == Synthesize([NewInv EXCEPT !.text = TextOf(1)])

\* The chat client with the bridge behind it: one message event of any
\* content, arriving while the bridge is idle or has a request in flight.
InitText ==
    /\ platform = "darwin"
    /\ options \in {o \in PlayerOptionSets :
                       ~o.enableDualOutput /\ o.speakerDevice = NULL}
    /\ \E b \in BOOLEAN :
           /\ isProcessing = (b /\ InFlightInv.busy)
           /\ inv = [i \in Events |->
                        IF b /\ i = 1 THEN InFlightInv.rec ELSE NewInv]
    /\ cur = "BuiltIn"
    /\ task = [i \in Events |-> [t \in Tasks |-> NewTask]]
    /\ faults = 0
    /\ call = NewCall
    /\ files = {}
    /\ app = [NewApp EXCEPT !.pc = "ready"]
    /\ msg \in [ content : Texts, bot : BOOLEAN, channelOk : BOOLEAN,
                  author : Users, allowedUserIds : AllowLists,
                  pc : {"received"}, cleaned : {Null} ]

NextText == MessageCreate

SpecText == InitText /\ [][NextText]_vars

\* cleanMessageText on its own: one message of a longer text, from an
\* allowed user in the configured channel, arriving at an idle bridge.
InitClean ==
    /\ platform = "darwin"
    /\ options \in {o \in PlayerOptionSets :
                       ~o.enableDualOutput /\ o.speakerDevice = NULL}
    /\ isProcessing = FALSE
    /\ cur = "BuiltIn"
    /\ inv = [i \in Events |-> NewInv]
    /\ task = [i \in Events |-> [t \in Tasks |-> NewTask]]
    /\ faults = 0
    /\ call = NewCall
    /\ files = {}
    /\ app = [NewApp EXCEPT !.pc = "ready"]
    /\ msg \in [ content : CleanTexts, bot : {FALSE}, channelOk : {TRUE},
                  author : {"u1"}, allowedUserIds : {NoList},
                  pc : {"received"}, cleaned : {Null} ]

NextClean == MessageCreate

SpecClean == InitClean /\ [][NextClean]_vars

\* Most pieces of a text in a sequence of messages.
MaxChatLen == 1

\* The messages the gateway may deliver to a client with allow list l.
Messages(l) ==
    [ content : TextsOf(MaxChatLen), bot : BOOLEAN, channelOk : BOOLEAN,
      author : Users, allowedUserIds : {l},
      pc : {"received"}, cleaned : {Null} ]

\* The gateway delivers the next message event, m, once the listener is
\* through with the one before; the bridge takes in MaxEvents events.
Arrive(m) ==
    /\ msg.pc # "received"
    /\ \E i \in Events : inv[i].pc = "new"
    /\ msg' = m
    /\ UNCHANGED <<platform, options, isProcessing, cur, inv, task, faults,
                   call, files, app>>

\* The chat client over a sequence of message events, with the bridge behind
\* it holding what it was handed.
InitChat ==
    /\ platform = "darwin"
    /\ options \in {o \in PlayerOptionSets :
                       ~o.enableDualOutput /\ o.speakerDevice = NULL}
    /\ isProcessing = FALSE
    /\ cur = "BuiltIn"
    /\ inv = [i \in Events |-> NewInv]
    /\ task = [i \in Events |-> [t \in Tasks |-> NewTask]]
    /\ faults = 0
    /\ call = NewCall
    /\ files = {}
    /\ app = [NewApp EXCEPT !.pc = "ready"]
    /\ \E l \in AllowLists : msg \in Messages(l)

NextChat ==
    \/ MessageCreate
    \/ \E m \in Messages(msg.allowedUserIds) : Arrive(m)

SpecChat == InitChat /\ [][NextChat]_vars

----------------------------------------------------------------------------
(* Properties of the pipeline orchestrator *)

\* An invocation between setting isProcessing and leaving finally.
InFlightPcs ==
    {"audio_query", "synthesis", "systemTTS", "switchToBlackHole", "play",
     "dual", "fallbackPlay", "cleanupFile"}

InFlight == {i \in Events : inv[i].pc \in InFlightPcs}

\* An invocation inside synthesize.
InSynthesis(i) == inv[i].pc \in {"audio_query", "synthesis", "systemTTS"}

\* Nothing was called on behalf of event i.
NothingInvoked(i) ==
    /\ inv[i].nPrimary = 0 /\ inv[i].nSystem = 0
    /\ inv[i].nSwitch = 0 /\ inv[i].nPlay = 0
    /\ \A t \in Tasks : task[i][t].pc = "none"

C2_BusyReturnsToIdle == InFlight = {} => ~isProcessing

\* C3: for an event that arrived while the flag was set, synthesis, device
\* switch and delivery are never invoked, in the arrival step or later, and
\* the event is dropped in the arrival step itself.
C3_DroppedNeverProcessed ==
    \A i \in Events :
        inv[i].arrivedBusy => inv[i].pc = "dropped" /\ NothingInvoked(i)

\* C3 witness: an event is dropped while the request in flight is still
\* inside synthesize.
C3_Witness ==
    \E i, j \in Events :
        /\ InSynthesis(i)
        /\ inv[j].arrivedBusy /\ inv[j].pc = "dropped" /\ NothingInvoked(j)

----------------------------------------------------------------------------
(* Properties of the synthesis engine *)

\* C4: when the voicevox engine fails for a request, the system engine is
\* called with the same text, and synthesize returns the system engine's
\* result unless the system engine fails too, in which case it throws.
C4_PrimaryFailureFallsBack ==
    \A i \in Events :
        inv[i].primary = "failed" =>
            /\ inv[i].nSystem = 1
            /\ inv[i].sysArgs.text = TextOf(i)
            /\ inv[i].system = "ok" => inv[i].audioFilePath = "system"
            /\ inv[i].system = "failed" =>
                   inv[i].audioFilePath = NULL /\ inv[i].outcome = "error"
            /\ inv[i].system = "none" => inv[i].pc = "systemTTS"

\* C4 witness: the voicevox engine failed and the request went on with the
\* system engine's result.
C4_Witness ==
    \E i \in Events :
        /\ inv[i].primary = "failed"
        /\ inv[i].audioFilePath = "system"
        /\ inv[i].pc = "switchToBlackHole"

\* C5: for one request each engine is invoked at most once, and a failure of
\* the system engine ends the request: it is caught by handleMessage with no
\* device switch and no playback.
C5_OneLevelFallback ==
    \A i \in Events :
        /\ inv[i].nPrimary <= 1
        /\ inv[i].nSystem <= 1
        /\ inv[i].system = "failed" =>
               /\ inv[i].pc = "done" /\ inv[i].outcome = "error"
               /\ inv[i].audioFilePath = NULL
               /\ inv[i].nSwitch = 0 /\ inv[i].nPlay = 0

\* C5 witness: both engines failed for one request, each called once.
C5_Witness ==
    \E i \in Events :
        /\ inv[i].primary = "failed" /\ inv[i].system = "failed"
        /\ inv[i].nPrimary = 1 /\ inv[i].nSystem = 1
        /\ platform = "darwin"

----------------------------------------------------------------------------
(* Properties of the device router and of dual delivery *)

\* A playOnSpecificMacOSDevice call that was made and has not settled.
Active(i, t) == task[i][t].pc \in {"query", "switch", "play", "restore"}

\* The step in which call t of invocation i settles.
Settles(i, t) == Active(i, t) /\ task'[i][t].pc = "done"

\* The step in which the dual delivery call of invocation i returns or throws.
DualReturns(i) ==
    /\ inv[i].pc \in {"dual", "fallbackPlay"}
    /\ inv'[i].pc \notin {"dual", "fallbackPlay"}

\* C6: when a scoped switch ends, by return or by throw, the current output
\* device is the device that was current when it was called.
C6_ScopedSwitchRestores ==
    [][\A i \in Events, t \in Tasks :
           Settles(i, t) => cur' = task[i][t].start]_vars

\* C7: the two scoped switches of one dual delivery are serialized: one has
\* ended before the other starts.
C7_SwitchesSerialized ==
    \A i \in Events : ~(Active(i, 1) /\ Active(i, 2))

\* C8: when a dual delivery call returns or throws, the current output
\* device is the device that was current when the call started.
C8_DualRestoresDevice ==
    [][\A i \in Events :
           DualReturns(i) => cur' = inv[i].devAtStart]_vars

C10_AllSettled ==
    \A i \in Events :
        (task[i][1].pc # "none" /\ inv[i].pc # "dual") =>
            \A t \in Tasks : task[i][t].pc = "done"

----------------------------------------------------------------------------
(* Properties of delivery *)

\* C11: a dual delivery failure triggers exactly one single-mode fallback
\* attempt; when that fallback playback fails the call throws, with no
\* further playback attempt.
C11_OneFallbackAttempt ==
    /\ call.nFallback <= 1
    /\ call.fbFailed => call.pc = "returned" /\ call.result = "raised"

\* C12: switchToBlackHole never throws: when its platform command failed,
\* the same invocation went on to the playback branch, and only the
\* playback's result decides how the invocation ends.
C12_SwitchFailureContinues ==
    \A i \in Events :
        inv[i].switched = "failed" =>
            /\ inv[i].nPlay = 1
            /\ inv[i].deliver # "none"
            /\ inv[i].outcome = "error" => inv[i].deliver = "raised"

\* C12 witness: the switch command failed and the request was played to the
\* end all the same.
C12_Witness ==
    \E i \in Events :
        /\ inv[i].switched = "failed"
        /\ inv[i].deliver = "ok" /\ inv[i].outcome = "ok"

Artifacts(i) == {f \in files : f = OutputPath(i)}

----------------------------------------------------------------------------
(* Properties of the device queries *)

\* C16: listOutputDevices never throws, and it returns the empty sequence
\* whenever the platform's enumeration command failed.
C16_ListEmptyOnFailure ==
    (call.op = "listOutputDevices" /\ call.pc = "returned") =>
        /\ call.result = "ok"
        /\ call.failed => call.value = <<>>

\* C17: getCurrentOutputDevice never throws, and it returns null on a
\* platform without a query command, when the command failed, and when the
\* command printed nothing but blanks; otherwise it returns the trimmed name.
C17_CurrentNullOnFailure ==
    (call.op = "getCurrentOutputDevice" /\ call.pc = "returned") =>
        /\ call.result = "ok"
        /\ platform \notin {"win32", "darwin"} => call.value = NULL
        /\ call.failed => call.value = NULL
        /\ call.out \in {"", " "} => call.value = NULL
        /\ call.value \in {NULL, "BlackHole", "Speaker"}

\* C17 witness: the query command succeeded and printed only blanks, and
\* null was returned.
C17_Witness ==
    /\ call.op = "getCurrentOutputDevice" /\ call.pc = "returned"
    /\ ~call.failed /\ call.out = " " /\ call.value = NULL

----------------------------------------------------------------------------
(* Properties of startup *)

----------------------------------------------------------------------------
(* Properties of text normalization *)

\* The message passed the author, channel and allow-list checks and its text
\* was cleaned.
Cleaned == msg.pc \in {"skipped", "onMessage"}

\* C19: a text of whitespace only, and a text whose first character after
\* its leading whitespace is the comment marker, is skipped.
C19_BlankOrCommentSkipped ==
    (/\ Cleaned
     /\ \/ TrimText(msg.content) = <<>>
        \/ StartsWithMarker(TrimStart(msg.content))) =>
        /\ msg.cleaned.null
        /\ msg.pc = "skipped"

\* C20: a text that is empty after the substitutions and the final trim is
\* skipped: the cleaned text is null or empty and onMessage is not called.
C20_EmptyAfterCleaningSkipped ==
    (Cleaned /\ Substituted(msg.content) = <<>>) =>
        /\ msg.cleaned.null \/ msg.cleaned.text = <<>>
        /\ msg.pc = "skipped"

\* C20 witness: a text of one emoji between blanks was cleaned to the empty
\* string and skipped.
C20_Witness ==
    /\ msg.content = <<" ", "EMOJI", " ">>
    /\ msg.pc = "skipped"
    /\ ~msg.cleaned.null /\ msg.cleaned.text = <<>>

\* A raw URL is in text s: the scheme followed by a character that is
\* neither whitespace nor the sentence terminator.
HasRawUrl(s) ==
    \E k \in 1 .. Len(s) :
        UrlAtHead(SubSeq(s, k, Len(s))) /\ s[k + 2] # "STOP"

\* C21: for a text that contains a URL, the cleaned text holds the link word
\* and no raw URL.
C21_NoRawUrlRemains ==
    (msg.pc = "onMessage" /\ HasRawUrl(msg.content)) =>
        /\ \E k \in 1 .. Len(msg.cleaned.text) : msg.cleaned.text[k] = "LINK"
        /\ ~HasRawUrl(msg.cleaned.text)

\* The number of maximal runs of line breaks in text s.
RECURSIVE Runs(_)
Runs(s) ==
    IF s = <<>> THEN 0
    ELSE (IF Head(s) = "NL" /\ (Len(s) = 1 \/ s[2] # "NL") THEN 1 ELSE 0)
             + Runs(Tail(s))

\* The number of full stops in text s.
Stops(s) == Len(SelectSeq(s, LAMBDA c : c = "STOP"))

\* C22: the cleaned text holds no line break, and exactly one full stop for
\* every maximal run of line breaks of the text: two segments with a run of
\* line breaks between them come out joined by one full stop.
C22_NewlineRunsCollapsed ==
    (Cleaned /\ ~msg.cleaned.null) =>
        /\ \A k \in 1 .. Len(msg.cleaned.text) : msg.cleaned.text[k] # "NL"
        /\ Stops(msg.cleaned.text) = Runs(msg.content)
        /\ msg.content = <<"a", "NL", "NL", "a">> =>
               msg.cleaned.text = <<"a", "STOP", "a">>

\* C22 witness: two segments with two line breaks between them were cleaned
\* to the segments joined by one full stop.
C22_Witness ==
    /\ msg.content = <<"a", "NL", "NL", "a">>
    /\ msg.pc = "onMessage"
    /\ msg.cleaned.text = <<"a", "STOP", "a">>

----------------------------------------------------------------------------
(* Properties of raw PCM playback *)

\* A call on the buffer API with a raw PCM result that carries a sample rate
\* and a channel count, once it has started a player.
RawWithParameters ==
    /\ call.op \in BufferOps /\ call.format = "raw"
    /\ call.sampleRate > 0 /\ call.channels > 0
    /\ call.pc # "idle"

----------------------------------------------------------------------------
(* Properties of the engine check *)

\* C24: checkConnection never throws and returns a boolean: true for a
\* response with an OK status, false for any other response, for a rejected
\* fetch and for a fetch cut off by the timer; startup goes on either way.
C24_CheckConnectionNeverThrows ==
    app.response # "none" =>
        /\ ~app.voicevox.raised
        /\ app.voicevox.value \in BOOLEAN
        /\ app.voicevox.value = (app.response = "ok")
        /\ app.response \in {"notOk", "networkError", "timeout"}
               => ~app.voicevox.value
        /\ app.pc = "checkPrerequisites"

\* C24 witness: the fetch was cut off by the timer, checkConnection returned
\* false and startup went on.
C24_Witness ==
    /\ app.response = "timeout"
    /\ app.voicevox = [raised |-> FALSE, value |-> FALSE]
    /\ app.pc = "checkPrerequisites"

----------------------------------------------------------------------------
(* Properties of the chat client *)

\* C25: with an allow list that is not empty, onMessage is called only for
\* a message whose author is in the list; with no list, or an empty one, a
\* message of any user who is not a bot, in the configured channel, whose
\* text does not clean to nothing, is handed to onMessage.
C25_AllowListFilters ==
    msg.pc # "received" =>
        /\ (/\ msg.allowedUserIds.given /\ msg.allowedUserIds.ids # {}
            /\ msg.pc = "onMessage")
               => msg.author \in msg.allowedUserIds.ids
        /\ (/\ msg.allowedUserIds.given /\ msg.allowedUserIds.ids # {}
            /\ msg.author \notin msg.allowedUserIds.ids)
               => /\ msg.pc = "ignored"
                  /\ \A i \in Events :
                         inv[i].pc = "new" \/ (i = 1 /\ inv[i] = InFlightInv.rec)
        /\ (/\ ~msg.allowedUserIds.given \/ msg.allowedUserIds.ids = {}
            /\ ~msg.bot /\ msg.channelOk
            /\ ~cleanMessageText(msg.content).null
            /\ cleanMessageText(msg.content).text # <<>>)
               => /\ msg.pc = "onMessage"
                  /\ \E i \in Events :
                         inv[i].pc # "new" /\ inv[i].text = msg.cleaned.text

\* C25 witness: the allow list names one user, a message of another user
\* with a text to read was ignored, and none of the pipeline was entered.
C25_Witness ==
    /\ msg.allowedUserIds = [given |-> TRUE, ids |-> {"u1"}]
    /\ msg.author = "u2" /\ ~msg.bot /\ msg.channelOk
    /\ msg.content = <<"a">>
    /\ msg.pc = "ignored"
    /\ \A i \in Events : inv[i].pc = "new"

----------------------------------------------------------------------------
(* Properties of the order of the pipeline steps *)

\* C26: in one invocation switchToBlackHole is called only after synthesize
\* has returned audio, and the playback only after switchToBlackHole has
\* returned; each is called at most once, and neither is called when the
\* last engine tried has failed.
C26_StepsInOrder ==
    \A i \in Events :
        /\ inv[i].nSwitch <= 1 /\ inv[i].nPlay <= 1
        /\ InSynthesis(i) => inv[i].nSwitch = 0 /\ inv[i].nPlay = 0
        /\ inv[i].nSwitch > 0 =>
               /\ inv[i].audioFilePath # NULL
               /\ inv[i].primary = "ok" \/ inv[i].system = "ok"
        /\ inv[i].pc = "switchToBlackHole" =>
               inv[i].nSwitch = 1 /\ inv[i].nPlay = 0
        /\ inv[i].nPlay > 0 =>
               inv[i].nSwitch = 1 /\ inv[i].pc # "switchToBlackHole"
        /\ inv[i].system = "failed" =>
               inv[i].nSwitch = 0 /\ inv[i].nPlay = 0

\* C26 witness: an invocation synthesized with the voicevox engine, switched
\* the device, played once and ended well.
C26_Witness ==
    \E i \in Events :
        /\ inv[i].nPrimary = 1 /\ inv[i].primary = "ok"
        /\ inv[i].nSwitch = 1 /\ inv[i].switched = "ok"
        /\ inv[i].nPlay = 1 /\ inv[i].deliver = "ok"
        /\ inv[i].pc = "done" /\ inv[i].outcome = "ok"

----------------------------------------------------------------------------
(* Progress of the pipeline *)

\* C27: when every external call ends, a set flag is reset in the end, and
\* an event that arrives while the flag is not set is taken in, not dropped.
C27_BusyLeadsToIdle ==
    /\ isProcessing ~> ~isProcessing
    /\ [][\A i \in Events :
              (~isProcessing /\ inv[i].pc = "new" /\ inv'[i].pc # "new")
                  => inv'[i].pc # "dropped"]_vars

----------------------------------------------------------------------------
(* Properties of the busy flag *)

\* The step in which event i arrives and is dropped.
DroppedStep(i) == inv[i].pc = "new" /\ inv'[i].pc = "dropped"

\* The step in which invocation i, which set the flag, leaves its finally.
OwnerReturns(i) == i \in InFlight /\ inv'[i].pc = "done"

\* C28: the step that drops an event changes nothing but the record of that
\* event: the flag, the device, the files and every other invocation stay
\* as they are; and the flag is reset only in the step in which the
\* invocation that set it returns.
C28_DroppedLeavesFlag ==
    [][/\ \A i \in Events :
              DroppedStep(i) =>
                  /\ isProcessing /\ isProcessing'
                  /\ NothingInvoked(i)'
                  /\ \A j \in Events \ {i} : inv'[j] = inv[j]
                  /\ UNCHANGED <<cur, task, files, call, faults>>
       /\ (isProcessing /\ ~isProcessing') =>
              \E i \in Events : OwnerReturns(i) /\ ~inv[i].arrivedBusy]_vars

\* C28 witness: an event was dropped while another invocation was in
\* flight, and afterwards that invocation reset the flag itself.
C28_Witness ==
    \E i, j \in Events :
        /\ i # j
        /\ inv[j].pc = "dropped" /\ inv[j].arrivedBusy
        /\ inv[i].pc = "done" /\ inv[i].outcome = "ok"
        /\ ~isProcessing

----------------------------------------------------------------------------
(* Properties of skipped messages *)

\* The step in which the chat client handles a message that passes its
\* author, channel and allow-list checks and whose text cleans to null or to
\* the empty string.
SkipStep ==
    /\ msg.pc = "received" /\ msg'.pc # "received"
    /\ ~msg.bot /\ msg.channelOk /\ ~NotAllowed(msg)
    /\ \/ cleanMessageText(msg.content).null
       \/ cleanMessageText(msg.content).text = <<>>

\* C29: handling a message whose text cleans to nothing does not call
\* onMessage: the flag stays as it is, set or not, no invocation record
\* changes, so no engine, switch or playback is called, and the device and
\* the files stay as they are.
C29_SkipLeavesPipeline ==
    [][SkipStep =>
           /\ msg'.pc = "skipped"
           /\ isProcessing' = isProcessing
           /\ inv' = inv
           /\ \A i \in Events : inv[i].pc = "new" => NothingInvoked(i)'
           /\ UNCHANGED <<cur, task, files, call, faults>>]_vars

\* C29 witness: a message of one emoji was skipped while a request was in
\* flight; that request is where it was and the next event is still to come.
C29_Witness ==
    /\ msg.content = <<"EMOJI">> /\ msg.pc = "skipped"
    /\ isProcessing
    /\ inv[1] = InFlightInv.rec /\ inv[2] = NewInv

----------------------------------------------------------------------------
(* Properties of the engine choice *)

\* C30: with the system engine configured, no invocation calls the voicevox
\* engine; the system engine is called at most once per invocation, with
\* the configured voice, and when it fails the invocation ends in the catch
\* of handleMessage with no further engine call, switch or playback.
C30_SystemEngineOnly ==
    options.engine = "system" =>
        \A i \in Events :
            /\ inv[i].nPrimary = 0 /\ inv[i].primary = "none"
            /\ inv[i].pc \notin {"audio_query", "synthesis"}
            /\ inv[i].nSystem <= 1
            /\ inv[i].nSystem = 1 => inv[i].sysArgs.voice = ConfiguredVoice
            /\ inv[i].system = "failed" =>
                   /\ inv[i].pc = "done" /\ inv[i].outcome = "error"
                   /\ inv[i].nSystem = 1
                   /\ inv[i].nSwitch = 0 /\ inv[i].nPlay = 0

\* C30 witness: with the system engine configured on Windows, the engine
\* failed for a request, which ended with the error logged.
C30_Witness ==
    /\ options.engine = "system" /\ platform = "win32"
    /\ \E i \in Events :
           /\ inv[i].system = "failed" /\ inv[i].nSystem = 1
           /\ inv[i].nPrimary = 0
           /\ inv[i].pc = "done" /\ inv[i].outcome = "error"

----------------------------------------------------------------------------
(* Properties of the fallback call *)

\* C31: when the voicevox engine failed for a request, the system engine is
\* called with the text of the request and with the fixed voice parameters
\* of the fallback (Haruka on Windows, Kyoko elsewhere, rate 230, volume
\* 50), which are not the voice parameters the process was configured with.
C31_FallbackVoiceParameters ==
    \A i \in Events :
        inv[i].primary = "failed" =>
            /\ inv[i].nSystem = 1
            /\ inv[i].sysArgs.text = TextOf(i)
            /\ inv[i].sysArgs.voice.voice =
                   (IF platform = "win32" THEN "Haruka" ELSE "Kyoko")
            /\ inv[i].sysArgs.voice.rate = 230
            /\ inv[i].sysArgs.voice.volume = 50
            /\ inv[i].sysArgs.voice # ConfiguredVoice

\* C31 witness: on Windows the voicevox engine failed and the system engine
\* is running with the voice Haruka, rate 230 and volume 50.
C31_Witness ==
    /\ platform = "win32"
    /\ \E i \in Events :
           /\ inv[i].primary = "failed" /\ inv[i].pc = "systemTTS"
           /\ inv[i].sysArgs.voice =
                  [voice |-> "Haruka", rate |-> 230, volume |-> 50]

----------------------------------------------------------------------------
(* Properties of the voicevox engine *)

\* The call of an external operation that ends in this step failed.
FailedStep == faults' = faults + 1

\* C32: POST /synthesis is issued only in the step in which POST
\* /audio_query returned an OK response; when the query fails or is not OK
\* the engine has failed with no render call; and when the render call fails
\* or is not OK the engine has failed, no audio is returned and no file is
\* written.
C32_QueryThenRender ==
    [][\A i \in Events :
           /\ (inv[i].pc # "synthesis" /\ inv'[i].pc = "synthesis") =>
                  inv[i].pc = "audio_query" /\ ~FailedStep
           /\ (inv[i].pc = "audio_query" /\ inv'[i] # inv[i] /\ FailedStep) =>
                  /\ inv'[i].pc # "synthesis"
                  /\ inv'[i].primary = "failed"
           /\ (inv[i].pc = "synthesis" /\ inv'[i] # inv[i] /\ FailedStep) =>
                  /\ inv'[i].primary = "failed"
                  /\ inv'[i].audioFilePath # "voicevox"
                  /\ files' = files
           /\ inv'[i].primary = "ok" => inv[i].pc = "synthesis" \/ inv[i].primary = "ok"]_vars

\* C32 witness: the query call of a request has returned an OK response and
\* its render call is under way, with nothing written yet.
C32_Witness ==
    \E i \in Events :
        /\ inv[i].pc = "synthesis"
        /\ inv[i].nPrimary = 1 /\ inv[i].primary = "none"
        /\ OutputPath(i) \notin files

----------------------------------------------------------------------------
(* Properties of the dual entry point without dual output *)

\* playWithDualOutputFromBuffer is called, or was, by a player that has the
\* dual output flag off or no speaker device.
DualEntryNotConfigured ==
    /\ ~(options.enableDualOutput /\ options.speakerDevice # NULL)
    /\ call'.op = "playWithDualOutputFromBuffer"

\* The call as playAudioFromBuffer makes it for the same synthesis result.
AsPlayAudioFromBuffer ==
    Enter("playAudioFromBuffer",
          [ call |-> [call EXCEPT !.op = "playAudioFromBuffer",
                                  !.format = call'.format,
                                  !.sampleRate = call'.sampleRate,
                                  !.channels = call'.channels],
            files |-> files ])

\* C33: with the dual output flag off or no speaker device,
\* playWithDualOutputFromBuffer does what playAudioFromBuffer does: it starts
\* the same one playback, with the same temporary file if any; when that
\* playback ends the call returns, or throws if the playback failed, with no
\* fallback playback; and no device is queried or switched.
C33_DualEntryIsSingle ==
    [][DualEntryNotConfigured =>
           /\ call.pc = "idle" =>
                  /\ [call' EXCEPT !.op = "playAudioFromBuffer"]
                         = AsPlayAudioFromBuffer.call
                  /\ files' = AsPlayAudioFromBuffer.files
           /\ call.pc \in PlaybackPcs =>
                  /\ call'.pc = "returned"
                  /\ call'.result = IF FailedStep THEN "raised" ELSE "ok"
           /\ call'.nPlay = 1 /\ call'.nFallback = 0
           /\ call'.pc # "promiseAll"
           /\ \A t \in Tasks : task'[CallSlot][t].pc = "none"
           /\ cur' = cur]_vars

\* C33 witness: the flag is on, no speaker device is configured, the one
\* playback of a playWithDualOutputFromBuffer call failed and the call threw.
C33_Witness ==
    /\ options.enableDualOutput /\ options.speakerDevice = NULL
    /\ call.op = "playWithDualOutputFromBuffer"
    /\ call.pc = "returned" /\ call.result = "raised"
    /\ call.nPlay = 1 /\ call.nFallback = 0

----------------------------------------------------------------------------
(* Properties of the per-device playbacks *)

\* C34: in a dual delivery on macOS, while every command has succeeded, the
\* playback of each per-device call runs with the device of that call as
\* the current output device.
C34_PlaybackOnOwnDevice ==
    \A i \in Events, t \in Tasks :
        (faults = 0 /\ task[i][t].pc = "play") => cur = TaskDevice(t)

\* C35: while the flag is not set, no per-device call of an earlier request
\* is still querying, switching, playing or restoring.
C35_IdleMeansQuiet ==
    ~isProcessing => \A i \in Events, t \in Tasks : ~Active(i, t)

----------------------------------------------------------------------------
(* Properties of the file-based dual delivery *)

\* The temporary file playOnMacOSDevicesFromBuffer writes for its per-device
\* calls: the first file of the call.
DualTempFile == TempFileName(NewCall)

\* C36: while a per-device call of a file-based dual delivery on macOS is
\* still pending or in progress, the temporary file it plays exists.
C36_FileKeptWhilePlaying ==
    (/\ call.op = "playWithDualOutputFromBuffer" /\ call.format # "raw"
     /\ platform = "darwin"
     /\ \E t \in Tasks : Active(CallSlot, t))
        => DualTempFile \in files

----------------------------------------------------------------------------
(* Properties of the scoped switch *)

\* The step in which the playback of per-device call t of row i ends.
PlayEnds(i, t) == task[i][t].pc = "play" /\ task'[i][t].pc # "play"

\* The step in which the restore of per-device call t of row i ends.
RestoreEnds(i, t) == task[i][t].pc = "restore" /\ task'[i][t].pc # "restore"

C38_NoRestoreWhenUnknown ==
    [][\A i \in Events, t \in Tasks :
           (/\ PlayEnds(i, t) /\ task[i][t].orig = NULL
            /\ faults = 1 /\ ~FailedStep) =>
               /\ task'[i][t].pc = "done"
               /\ cur' = TaskDevice(t)]_vars

----------------------------------------------------------------------------
(* Properties of the author and channel checks *)

\* The step in which the listener handles a message of a bot or of another
\* channel than the configured one.
BotOrOtherChannelStep ==
    /\ msg.pc = "received" /\ msg'.pc # "received"
    /\ msg.bot \/ ~msg.channelOk

\* C39: in any sequence of messages, a message of a bot and a message of
\* another channel is ignored: its text is not cleaned, onMessage is not
\* called, and the bridge is as it was.
C39_BotAndChannelIgnored ==
    [][BotOrOtherChannelStep =>
           /\ msg'.pc = "ignored"
           /\ msg'.cleaned = Null
           /\ inv' = inv /\ isProcessing' = isProcessing
           /\ UNCHANGED <<cur, task, files, call, faults>>]_vars

\* C39 witness: after an earlier message was handed to the bridge, a message
\* of an allowed user in another channel, with a text to read, was ignored.
C39_Witness ==
    /\ inv[1].pc # "new" /\ inv[2].pc = "new"
    /\ ~msg.bot /\ ~msg.channelOk /\ ~NotAllowed(msg)
    /\ msg.content = <<"a">>
    /\ msg.pc = "ignored"

====
